---- MODULE Spec2Model ----
(***************************************************************************)
(* Model of the frontbridge correlation engine (src/src/lib.rs):           *)
(* invoke_frontend on the caller side, the RESPONSE_EVENT listener and     *)
(* FrontInvokeState::resolve on the reply side, and the process-wide       *)
(* OnceCell that holds the FrontInvokeState.                               *)
(*                                                                         *)
(* A FrontInvokeState instance is named by the call that constructed it.   *)
(* A oneshot channel is named by the call that created it; an entry of the *)
(* pending map holds the Sender of that call's channel.                    *)
(***************************************************************************)
EXTENDS Integers, Sequences, FiniteSets, TLC

\* ---------------------------------------------------------------- bounds
NumCalls == 2
NumDeliveries == 2

Calls == 1..NumCalls
Deliveries == 1..NumDeliveries

\* ------------------------------------------------------------- constants
NoCall == 0
NoThread == <<"none", 0>>
CallThread(c) == <<"call", c>>
ListenerThread(d) == <<"listener", d>>

\* serde_json::Value, written as its JSON text; NoneVal is Option::None.
NoneVal == "None"
JsonNull == "null"
JsonX1 == "{x:1}"
JsonY2 == "{y:2}"

UnknownError == "unknown error"

\* The method strings the callers pass. The engine only copies a method
\* into the request and into error messages, so each call is given its own.
Methods == <<"ping", "get", "open", "save">>
MethodOf(c) == Methods[((c - 1) % Len(Methods)) + 1]

\* Rust-side payloads handed to invoke_frontend: the unit value, a struct
\* {x: 1}, and a map with non-string keys (which serde_json cannot encode).
Payloads == {"()", "X{x:1}", "Map{[1]:1}"}

\* Result types R the caller may ask for: a struct {y: integer}, and unit.
RTypes == {"Y", "()"}

\* ------------------------------------------------------------ the codec

\* A serializer that swallows the error and sends null instead.
ToValueLossy(p) ==
    CASE p = "X{x:1}" -> <<"{x:1}">>
      [] OTHER -> <<"null">>

\* serde_json::to_value(payload): <<>> on error, <<value>> on success.
ToValue(p) ==
    CASE p = "()" -> <<JsonNull>>
      [] p = "X{x:1}" -> <<JsonX1>>
      [] OTHER -> <<>>

\* A request without skip_serializing_if: the payload key is always there.
EncodeRequestAlways(id, m, v) ==
    [keys |-> {"id", "method", "payload"}, id |-> id, method |-> m, payload |-> v]

\* FrontInvokeRequest as serialized for the transport: the payload key is
\* skipped when the Option is None.
EncodeRequest(id, m, v) ==
    IF v # JsonNull
    THEN [keys |-> {"id", "method", "payload"}, id |-> id, method |-> m, payload |-> v]
    ELSE [keys |-> {"id", "method"}, id |-> id, method |-> m, payload |-> NoneVal]

\* Raw bodies of events on RESPONSE_EVENT. keys is the set of keys present
\* in the JSON text; a field whose key is absent holds a filler.
RawEvent(ks, id, ok, data, err) ==
    [keys |-> ks, id |-> id, success |-> ok, data |-> data, error |-> err]

EventsFor(id) ==
    { RawEvent({"id", "success", "data"}, id, TRUE, JsonY2, NoneVal),
      RawEvent({"id", "success"}, id, TRUE, NoneVal, NoneVal),
      RawEvent({"id", "success", "data", "error"}, id, FALSE, JsonY2, "not found"),
      RawEvent({"id", "success"}, id, FALSE, NoneVal, NoneVal),
      RawEvent({"id", "data"}, id, FALSE, JsonY2, NoneVal) }

EventIds == 1..NumCalls

Events ==
    UNION { EventsFor(i) : i \in EventIds }
      \cup { RawEvent({"success", "data"}, 0, TRUE, JsonY2, NoneVal) }

\* A decoder with #[serde(default)] on success as well.
DecodeLenient(raw) ==
    IF "id" \in raw.keys
    THEN << [id |-> raw.id,
             success |-> "success" \in raw.keys /\ raw.success,
             data |-> IF "data" \in raw.keys /\ raw.data # "null"
                      THEN raw.data ELSE "None",
             error |-> IF "error" \in raw.keys THEN raw.error ELSE "None"] >>
    ELSE <<>>

\* serde_json::from_str::<FrontInvokeResponse>: id and success are
\* required, data and error default to None. <<>> on error.
DecodeResponse(raw) ==
    IF "id" \in raw.keys /\ "success" \in raw.keys
    THEN << [id |-> raw.id,
             success |-> raw.success,
             data |-> IF "data" \in raw.keys /\ raw.data # JsonNull
                      THEN raw.data ELSE NoneVal,
             error |-> IF "error" \in raw.keys THEN raw.error ELSE NoneVal] >>
    ELSE <<>>

\* serde_json::from_value::<R>(value): <<>> on error.
FromValue(ty, v) ==
    CASE ty = "Y" -> IF v = JsonY2 THEN <<"Y{y:2}">> ELSE <<>>
      [] OTHER -> IF v = JsonNull THEN <<"()">> ELSE <<>>

\* ------------------------------------------------------------- outcomes
NoOutcome == [kind |-> "None", method |-> "", msg |-> "", value |-> "", ty |-> ""]
OkOutcome(ty, v) == [kind |-> "Ok", method |-> "", msg |-> "", value |-> v, ty |-> ty]
ErrContext(ctx, ty) == [kind |-> "Context", method |-> "", msg |-> ctx, value |-> "", ty |-> ty]
ErrDroppedAnon(m) ==
    [kind |-> "Dropped", method |-> "", msg |-> "dropped without response", value |-> "", ty |-> ""]
ErrDropped(m) ==
    [kind |-> "Dropped", method |-> m, msg |-> "dropped without response", value |-> "", ty |-> ""]
ErrFailed(m, e) == [kind |-> "Failed", method |-> m, msg |-> e, value |-> "", ty |-> ""]

\* The failure branch without the response's error string.
InterpretNoMsg(m, ty, resp) ==
    IF resp.success
    THEN LET value == IF resp.data = NoneVal THEN JsonNull ELSE resp.data
             r == FromValue(ty, value)
         IN IF r # <<>> THEN OkOutcome(ty, r[1])
            ELSE ErrContext("deserialize frontend response", ty)
    ELSE ErrFailed(m, UnknownError)

\* The success branch with data required: an absent data is an error.
InterpretDataRequired(m, ty, resp) ==
    IF resp.success
    THEN LET r == IF resp.data = NoneVal THEN <<>> ELSE FromValue(ty, resp.data)
         IN IF r # <<>> THEN OkOutcome(ty, r[1])
            ELSE ErrContext("deserialize frontend response", ty)
    ELSE ErrFailed(m, IF resp.error = NoneVal THEN UnknownError ELSE resp.error)

\* Lines 127-135: what the call returns for the response it received.
Interpret(m, ty, resp) ==
    IF resp.success
    THEN LET value == IF resp.data = NoneVal THEN JsonNull ELSE resp.data
             r == FromValue(ty, value)
         IN IF r # <<>> THEN OkOutcome(ty, r[1])
            ELSE ErrContext("deserialize frontend response", ty)
    ELSE ErrFailed(m, IF resp.error = NoneVal THEN UnknownError ELSE resp.error)

\* ---------------------------------------------------------------- state
VARIABLES
    pc,           \* per call: position in invoke_frontend
    method,       \* per call: the method string
    payload,      \* per call: the payload argument, known once it is serialized
    st,           \* per call: the FrontInvokeState it obtained (NoCall: none)
    id,           \* per call: the id it allocated (0: none yet)
    req,          \* per call: the FrontInvokeRequest it built
    outcome,      \* per call: what invoke_frontend returned
    chan,         \* per call: its oneshot channel (value: what was sent into it)
    cell,         \* FRONT_INVOKE_STATE: NoCall, or the instance it holds
    initializing, \* the call running the get_or_init closure, or NoCall
    next_id,      \* per instance: FrontInvokeState.next_id (0: not built)
    pending,      \* per instance: FrontInvokeState.pending
    lock,         \* per instance: the thread holding the pending mutex
    listeners,    \* the RESPONSE_EVENT listeners attached, by instance
    emitted,      \* the request events published on REQUEST_EVENT
    dpc,          \* per delivery: position in the listener closure
    dev,          \* per delivery: the raw event body (until resolve hands it on)
    did,          \* per delivery: the id of the response it decoded (0: none)
    dst,          \* per delivery: the instance the closure captured
    dtx,          \* per delivery: the Sender that resolve removed
    dres          \* per delivery: how the delivery ended

vars == <<pc, method, payload, st, id, req, outcome, chan, cell, initializing, next_id,
          pending, lock, listeners, emitted, dpc, dev, did, dst, dtx, dres>>

callVars == <<pc, method, payload, st, id, req, outcome>>
cellVars == <<cell, initializing, listeners>>
tableVars == <<next_id, pending, lock>>
deliveryVars == <<dpc, dev, did, dst, dtx, dres>>

NoChan == [made |-> FALSE, value |-> <<>>, rx |-> "none", tx |-> "none"]
NoReq == [keys |-> {}, id |-> 0, method |-> "", payload |-> NoneVal]
NoEvent == RawEvent({}, 0, FALSE, NoneVal, NoneVal)
EmptyMap == [i \in {} |-> NoCall]

Init ==
    /\ pc = [c \in Calls |-> "idle"]
    /\ method = [c \in Calls |-> ""]
    /\ payload = [c \in Calls |-> ""]
    /\ st = [c \in Calls |-> NoCall]
    /\ id = [c \in Calls |-> 0]
    /\ req = [c \in Calls |-> NoReq]
    /\ outcome = [c \in Calls |-> NoOutcome]
    /\ chan = [c \in Calls |-> NoChan]
    /\ cell = NoCall
    /\ initializing = NoCall
    /\ next_id = [s \in Calls |-> 0]
    /\ pending = [s \in Calls |-> EmptyMap]
    /\ lock = [s \in Calls |-> NoThread]
    /\ listeners = <<>>
    /\ emitted = {}
    /\ dpc = [d \in Deliveries |-> "idle"]
    /\ dev = [d \in Deliveries |-> NoEvent]
    /\ did = [d \in Deliveries |-> 0]
    /\ dst = [d \in Deliveries |-> NoCall]
    /\ dtx = [d \in Deliveries |-> <<>>]
    /\ dres = [d \in Deliveries |-> "none"]

\* ------------------------------------------------------ invoke_frontend

\* Line 106: the call begins. Calls are numbered in the order they begin.
Begin(c) ==
    /\ pc[c] = "idle"
    /\ \A b \in Calls : b < c => pc[b] # "idle"
    /\ method' = [method EXCEPT ![c] = MethodOf(c)]

\* A check-then-set in place of get_or_init: only the cell is looked at.
CanInitRacy == cell = NoCall

\* OnceCell::get_or_init: the cell is empty and nobody is initializing it.
CanInit == cell = NoCall /\ initializing = NoCall

\* state(), first caller: enters the closure and runs FrontInvokeState::new.
StateInit(c) ==
    /\ Begin(c)
    /\ CanInit
    /\ initializing' = c
    /\ next_id' = [next_id EXCEPT ![c] = 1]
    /\ pending' = [pending EXCEPT ![c] = EmptyMap]
    /\ pc' = [pc EXCEPT ![c] = "listen"]
    /\ UNCHANGED <<payload, st, id, req, outcome, chan, cell, listeners, lock,
                   emitted, deliveryVars>>

\* register_listener: listen_any(RESPONSE_EVENT, closure over the instance).
RegisterListener(c) ==
    /\ pc[c] = "listen"
    /\ listeners' = Append(listeners, c)
    /\ pc' = [pc EXCEPT ![c] = "publish"]
    /\ UNCHANGED <<method, payload, st, id, req, outcome, chan, cell, initializing,
                   tableVars, emitted, deliveryVars>>

\* The closure returns: the cell takes the instance (unless it was already
\* set) and the caller gets what the cell holds.
StateReturn(c) ==
    /\ pc[c] = "publish"
    /\ cell' = IF cell = NoCall THEN c ELSE cell
    /\ initializing' = IF initializing = c THEN NoCall ELSE initializing
    /\ st' = [st EXCEPT ![c] = cell']
    /\ pc' = [pc EXCEPT ![c] = "alloc"]
    /\ UNCHANGED <<method, payload, id, req, outcome, chan, listeners, tableVars,
                   emitted, deliveryVars>>

\* state(), later callers: the cell is set.
StateGet(c) ==
    /\ Begin(c)
    /\ cell # NoCall
    /\ st' = [st EXCEPT ![c] = cell]
    /\ pc' = [pc EXCEPT ![c] = "alloc"]
    /\ UNCHANGED <<payload, id, req, outcome, chan, cellVars, tableVars,
                   emitted, deliveryVars>>

\* The body of invoke_frontend with the request emitted before the handle
\* is registered.
ThenEmitFirst(p) ==
    CASE p = "alloc" -> "serialize"
      [] p = "serialize" -> "emit"
      [] p = "emit" -> "add_lock"
      [] p = "add_lock" -> "add_insert"
      [] p = "add_insert" -> "await"
      [] OTHER -> "done"

\* Lines 108-125, the order of the statements of invoke_frontend: the
\* position that follows p when p does not return early.
Then(p) ==
    CASE p = "alloc" -> "add_lock"
      [] p = "add_lock" -> "add_insert"
      [] p = "add_insert" -> "serialize"
      [] p = "serialize" -> "emit"
      [] p = "emit" -> "await"
      [] OTHER -> "done"

\* A load where the fetch_add should be: the counter is never advanced.
FetchAddLoadOnly(n) == [ret |-> n, new |-> n]

\* AtomicU64::fetch_add(1) on a counter holding n: the value returned and
\* the value stored, in one atomic step.
FetchAdd(n) == [ret |-> n, new |-> n + 1]

\* Lines 108-109: allocate the id, create the oneshot channel.
AllocId(c) ==
    /\ pc[c] = "alloc"
    /\ id' = [id EXCEPT ![c] = FetchAdd(next_id[st[c]]).ret]
    /\ next_id' = [next_id EXCEPT ![st[c]] = FetchAdd(@).new]
    /\ chan' = [chan EXCEPT ![c] = [made |-> TRUE, value |-> <<>>,
                                    rx |-> "alive", tx |-> "alive"]]
    /\ pc' = [pc EXCEPT ![c] = Then("alloc")]
    /\ UNCHANGED <<method, payload, st, req, outcome, cellVars, pending, lock,
                   emitted, deliveryVars>>

\* A map without the Mutex: lock() never has to wait.
LockFreeAlways(s) == TRUE

\* Mutex::lock returns once no thread holds the guard.
LockFree(s) == lock[s] = NoThread

\* add_pending: pending.lock()
AddPendingLock(c) ==
    /\ pc[c] = "add_lock"
    /\ LockFree(st[c])
    /\ lock' = [lock EXCEPT ![st[c]] = CallThread(c)]
    /\ pc' = [pc EXCEPT ![c] = Then("add_lock")]
    /\ UNCHANGED <<method, payload, st, id, req, outcome, chan, cellVars, next_id,
                   pending, emitted, deliveryVars>>

\* HashMap::insert(id, sender): the map after the insert.
Insert(map, k, v) == [i \in (DOMAIN map) \cup {k} |-> IF i = k THEN v ELSE map[i]]

\* A get() where the remove should be: the entry stays in the map.
RemoveNothing(map, k) == map

\* A clear() where the remove should be.
RemoveAll(map, k) == [i \in {} |-> map[i]]

\* HashMap::remove(id): the map after the removal.
Remove(map, k) == [i \in (DOMAIN map) \ {k} |-> map[i]]

\* A lookup that correlates by order: the oldest entry, whatever the key.
LookupOldest(map, k) ==
    IF DOMAIN map # {}
    THEN <<map[CHOOSE i \in DOMAIN map : \A j \in DOMAIN map : i <= j]>>
    ELSE <<>>

\* HashMap lookup as an Option.
Lookup(map, k) == IF k \in DOMAIN map THEN <<map[k]>> ELSE <<>>

\* Dropping the Senders in old (a sequence of at most one channel name)
\* without a send closes their channels.
DropSenders(ch, old) ==
    [x \in Calls |-> IF old # <<>> /\ old[1] = x
                     THEN [ch[x] EXCEPT !.tx = "dropped"] ELSE ch[x]]

\* add_pending: insert (a replaced Sender is dropped), guard released.
AddPendingInsert(c) ==
    /\ pc[c] = "add_insert"
    /\ lock[st[c]] = CallThread(c)
    /\ LET old == Lookup(pending[st[c]], id[c])
       IN /\ pending' = [pending EXCEPT ![st[c]] = Insert(@, id[c], c)]
          /\ chan' = DropSenders(chan, old)
    /\ lock' = [lock EXCEPT ![st[c]] = NoThread]
    /\ pc' = [pc EXCEPT ![c] = Then("add_insert")]
    /\ UNCHANGED <<method, payload, st, id, req, outcome, cellVars, next_id,
                   emitted, deliveryVars>>

\* An early return drops rx.
DropReceiver(ch, c) == [ch EXCEPT ![c].rx = "dropped"]

\* Lines 112-117: serialize the payload, build the request.
Serialize(c, p) ==
    /\ pc[c] = "serialize"
    /\ payload' = [payload EXCEPT ![c] = p]
    /\ LET v == ToValue(p)
       IN IF v = <<>>
          THEN /\ outcome' = [outcome EXCEPT ![c] = ErrContext("serialize frontend payload", "")]
               /\ chan' = DropReceiver(chan, c)
               /\ pc' = [pc EXCEPT ![c] = "done"]
               /\ UNCHANGED req
          ELSE /\ req' = [req EXCEPT ![c] = EncodeRequest(id[c], method[c], v[1])]
               /\ pc' = [pc EXCEPT ![c] = Then("serialize")]
               /\ UNCHANGED <<outcome, chan>>
    /\ UNCHANGED <<method, st, id, cellVars, tableVars, emitted, deliveryVars>>

\* The result of emit ignored: the call waits whatever the transport said.
AfterEmitIgnored(accepted) == "await"

\* Line 121: `?` on the result of emit: go on to rx.await, or return.
AfterEmit(accepted) == IF accepted THEN Then("emit") ELSE "done"

\* Lines 119-121: app_handle.emit; the transport accepts or rejects.
Emit(c, accepted) ==
    /\ pc[c] = "emit"
    /\ emitted' = IF accepted THEN emitted \cup {req[c]} ELSE emitted
    /\ pc' = [pc EXCEPT ![c] = AfterEmit(accepted)]
    /\ IF AfterEmit(accepted) = "done"
       THEN /\ outcome' = [outcome EXCEPT ![c] = ErrContext("emit frontend invoke event", "")]
            /\ chan' = DropReceiver(chan, c)
       ELSE UNCHANGED <<outcome, chan>>
    /\ UNCHANGED <<method, payload, st, id, req, cellVars, tableVars, deliveryVars>>

\* An await that gives up on its own, as under a timeout.
RxReadyTimeout(c) == TRUE

\* rx.await is ready: a value was sent, or the Sender is gone.
RxReady(c) == chan[c].value # <<>> \/ chan[c].tx = "dropped"

\* Lines 123-135: rx.await completes and the call returns.
Resume(c, ty) ==
    /\ pc[c] = "await"
    /\ RxReady(c)
    /\ outcome' = [outcome EXCEPT ![c] =
                     IF chan[c].value # <<>>
                     THEN Interpret(method[c], ty, chan[c].value[1])
                     ELSE ErrDropped(method[c])]
    /\ chan' = [chan EXCEPT ![c].rx = "consumed"]
    /\ pc' = [pc EXCEPT ![c] = Then("await")]
    /\ UNCHANGED <<method, payload, st, id, req, cellVars, tableVars, emitted, deliveryVars>>

\* ------------------------------------------------- the response listener

\* Lines 52-59: the transport invokes an attached listener with an event;
\* the closure decodes it and either goes on to resolve or logs and returns.
\* Deliveries are numbered in the order the transport begins them.
Listener(d, l, raw) ==
    /\ dpc[d] = "idle"
    /\ \A b \in Deliveries : b < d => dpc[b] # "idle"
    /\ l \in 1..Len(listeners)
    /\ dst' = [dst EXCEPT ![d] = listeners[l]]
    /\ dev' = [dev EXCEPT ![d] = raw]
    /\ IF DecodeResponse(raw) # <<>>
       THEN /\ did' = [did EXCEPT ![d] = DecodeResponse(raw)[1].id]
            /\ dpc' = [dpc EXCEPT ![d] = "lock"]
            /\ UNCHANGED dres
       ELSE /\ dpc' = [dpc EXCEPT ![d] = "done"]
            /\ dres' = [dres EXCEPT ![d] = "parse_error"]
            /\ UNCHANGED did
    /\ UNCHANGED <<callVars, chan, cellVars, tableVars, emitted, dtx>>

\* The decoded response a delivery is resolving.
Resp(d) == DecodeResponse(dev[d])[1]

\* resolve: pending.lock()
ResolveLock(d) ==
    /\ dpc[d] = "lock"
    /\ LockFree(dst[d])
    /\ lock' = [lock EXCEPT ![dst[d]] = ListenerThread(d)]
    /\ dpc' = [dpc EXCEPT ![d] = "remove"]
    /\ UNCHANGED <<callVars, chan, cellVars, next_id, pending, emitted,
                   dev, did, dst, dtx, dres>>

\* resolve: remove(&resp.id), guard released at the end of the statement.
ResolveRemove(d) ==
    /\ dpc[d] = "remove"
    /\ lock[dst[d]] = ListenerThread(d)
    /\ dtx' = [dtx EXCEPT ![d] = Lookup(pending[dst[d]], Resp(d).id)]
    /\ pending' = [pending EXCEPT ![dst[d]] = Remove(@, Resp(d).id)]
    /\ lock' = [lock EXCEPT ![dst[d]] = NoThread]
    /\ dpc' = [dpc EXCEPT ![d] = "send"]
    /\ UNCHANGED <<callVars, chan, cellVars, next_id, emitted, dev, did, dst, dres>>

\* A send that consumes the Sender and loses the value.
SendLost(ch, resp) == [ch EXCEPT !.tx = "sent"]

\* A resolve that lets go of the Sender without sending.
SendDropped(ch, resp) == [ch EXCEPT !.tx = "dropped"]

\* oneshot::Sender::send: the value is stored unless the Receiver is gone;
\* the Sender is consumed either way.
Send(ch, resp) ==
    IF ch.rx = "alive"
    THEN [ch EXCEPT !.value = <<resp>>, !.tx = "sent"]
    ELSE [ch EXCEPT !.tx = "dropped"]

\* resolve, lines 69-76: send into the removed Sender (the response moves
\* into the channel), or warn.
ResolveSend(d) ==
    /\ dpc[d] = "send"
    /\ IF dtx[d] # <<>>
       THEN /\ chan' = [chan EXCEPT ![dtx[d][1]] = Send(@, Resp(d))]
            /\ dres' = [dres EXCEPT ![d] =
                          IF chan[dtx[d][1]].rx = "alive" THEN "sent" ELSE "send_failed"]
       ELSE /\ dres' = [dres EXCEPT ![d] = "unmatched"]
            /\ UNCHANGED chan
    /\ dev' = [dev EXCEPT ![d] = NoEvent]
    /\ dpc' = [dpc EXCEPT ![d] = "done"]
    /\ UNCHANGED <<callVars, cellVars, tableVars, emitted, did, dst, dtx>>

\* ------------------------------------------------------------ the system
Next ==
    \/ \E c \in Calls : StateInit(c)
    \/ \E c \in Calls : RegisterListener(c)
    \/ \E c \in Calls : StateReturn(c)
    \/ \E c \in Calls : StateGet(c)
    \/ \E c \in Calls : AllocId(c)
    \/ \E c \in Calls : AddPendingLock(c)
    \/ \E c \in Calls : AddPendingInsert(c)
    \/ \E c \in Calls, p \in Payloads : Serialize(c, p)
    \/ \E c \in Calls, accepted \in BOOLEAN : Emit(c, accepted)
    \/ \E c \in Calls, ty \in RTypes : Resume(c, ty)
    \/ \E d \in Deliveries, l \in 1..Len(listeners), raw \in Events : Listener(d, l, raw)
    \/ \E d \in Deliveries : ResolveLock(d)
    \/ \E d \in Deliveries : ResolveRemove(d)
    \/ \E d \in Deliveries : ResolveSend(d)

Spec == Init /\ [][Next]_vars

\* ------------------------------------------------------------ properties

\* The call has passed add_pending.
Registered(c) == pc[c] \in {"serialize", "emit", "await", "done"}

\* The pending map of the call's instance holds the call's Sender under its id.
InTable(c) ==
    /\ st[c] # NoCall
    /\ id[c] \in DOMAIN pending[st[c]]
    /\ pending[st[c]][id[c]] = c

\* The deliveries whose resolve took the call's Sender out of the map.
Takers(c) == {d \in Deliveries : dtx[d] = <<c>>}

\* The call returned what a response told it to.
Resolved(c) == pc[c] = "done" /\ chan[c].rx = "consumed" /\ chan[c].value # <<>>

\* C1: a response that reaches a call's channel carries the id the call
\* allocated, and a delivery takes a Sender only of the call whose id its
\* response carries, whatever the interleaving and the order of arrival.
C1_ReplyMatchesId ==
    /\ \A c \in Calls : chan[c].value # <<>> => chan[c].value[1].id = id[c]
    /\ \A d \in Deliveries : dtx[d] # <<>> => did[d] = id[dtx[d][1]]

\* Two calls resolved, their responses having arrived in the reverse order.
C1_Witness ==
    /\ Resolved(1) /\ Resolved(2)
    /\ id[1] = 1 /\ id[2] = 2
    /\ dtx[1] = <<2>> /\ dtx[2] = <<1>>
    /\ chan[1].value[1] # chan[2].value[1]

\* C2: of the deliveries carrying a call's id, at most one takes the call's
\* Sender; once the entry is gone exactly one has taken it, and every other
\* one that has looked finds nothing and ends unmatched.
C2_FirstReplyWins ==
    \A c \in Calls :
        /\ Cardinality(Takers(c)) <= 1
        /\ Registered(c) => (InTable(c) <=> Takers(c) = {})
        /\ \A d \in Deliveries :
              (dpc[d] \in {"send", "done"} /\ id[c] # 0 /\ did[d] = id[c]
                 /\ d \notin Takers(c))
                => /\ dtx[d] = <<>>
                   /\ dpc[d] = "done" => dres[d] = "unmatched"

\* Two deliveries with the same id in resolve at once while the call waits:
\* one holds the call's Sender, the other found no entry.
C2_Witness ==
    \E c \in Calls : \E d1, d2 \in Deliveries :
        /\ d1 # d2 /\ did[d1] = id[c] /\ did[d2] = id[c]
        /\ pc[c] = "await"
        /\ dpc[d1] = "send" /\ dtx[d1] = <<c>>
        /\ dpc[d2] = "send" /\ dtx[d2] = <<>>

\* The calls that have allocated an id.
Allocated == {c \in Calls : id[c] # 0}

\* C3: the ids allocated start at 1 and are pairwise distinct; each newly
\* allocated id is greater than every id allocated before, and a call's id
\* never changes.
C3_IdsUniqueIncreasing ==
    /\ [](/\ \A c \in Allocated : id[c] >= 1
          /\ Allocated # {} => \E c \in Allocated : id[c] = 1
          /\ \A a, b \in Allocated : a # b => id[a] # id[b])
    /\ [][\A c \in Calls :
            /\ (id[c] = 0 /\ id'[c] # 0) => \A b \in Allocated : id'[c] > id[b]
            /\ id[c] # 0 => id'[c] = id[c]]_vars

\* Both calls have ids, the later-begun call having allocated first, and
\* one of them failed before emission.
C3_Witness ==
    /\ id[2] = 1 /\ id[1] = 2
    /\ pc[2] = "done" /\ outcome[2].kind = "Context"
    /\ pc[1] = "await"

\* C4: a resolve whose id is not a key of the pending map takes nothing,
\* leaves the map as it is, and touches no channel.
C4_UnmatchedDiscarded ==
    [][\A d \in Deliveries :
          /\ (dpc[d] = "remove" /\ dpc'[d] = "send"
                /\ did[d] \notin DOMAIN pending[dst[d]])
               => (dtx'[d] = <<>> /\ pending' = pending /\ chan' = chan)
          /\ (dpc[d] = "send" /\ dpc'[d] = "done" /\ dtx[d] = <<>>)
               => (dres'[d] = "unmatched" /\ pending' = pending /\ chan' = chan)]_vars

\* A delivery ended unmatched while another call still waits, its entry in
\* the map and its channel empty.
C4_Witness ==
    \E d \in Deliveries : \E c \in Calls :
        /\ dres[d] = "unmatched" /\ did[d] # id[c]
        /\ pc[c] = "await" /\ InTable(c)
        /\ chan[c].value = <<>> /\ chan[c].tx = "alive"

\* The event body has the two required keys.
WellFormed(raw) == {"id", "success"} \subseteq raw.keys

\* C5: an event lacking id or success ends its delivery at once as a parse
\* error: nothing is taken from the map and no map, channel, lock, call
\* position or outcome changes; later events are still accepted; a waiting
\* call leaves rx.await only with a response in its channel, and a channel
\* is filled only by a delivery that decoded a response carrying its id.
C5_MalformedDropped ==
    /\ [][\A d \in Deliveries :
            (dpc[d] = "idle" /\ dpc'[d] # "idle" /\ ~WellFormed(dev'[d]))
              => /\ dpc'[d] = "done" /\ dres'[d] = "parse_error"
                 /\ dtx'[d] = <<>>
                 /\ UNCHANGED <<pending, chan, lock, pc, outcome>>]_vars
    /\ [][\A c \in Calls :
            (pc[c] = "await" /\ pc'[c] # "await") => chan[c].value # <<>>]_vars
    /\ [](\A c \in Calls :
            chan[c].value # <<>>
              => \E d \in Takers(c) : did[d] = id[c] /\ dres[d] = "sent")
    /\ [](\A d, e \in Deliveries :
            (dres[d] = "parse_error" /\ dpc[e] = "idle"
               /\ \A b \in Deliveries : b < e => dpc[b] # "idle")
              => ENABLED (\E raw \in Events : Listener(e, 1, raw)))

\* The event meant for a waiting call lacked success and was dropped; a
\* later well-formed event with the same id resolved the call.
C5_Witness ==
    \E c \in Calls :
        /\ dres[1] = "parse_error"
        /\ "id" \in dev[1].keys /\ dev[1].id = id[c]
        /\ dres[2] = "sent" /\ dtx[2] = <<c>>
        /\ Resolved(c)

\* The FrontInvokeState instances constructed so far.
Constructed == {s \in Calls : next_id[s] # 0}

\* C6: at most one FrontInvokeState is ever constructed and at most one
\* listener attached; a call that has obtained its state holds the one in
\* the cell, which is the constructed one and the one the listener
\* captured, and every delivery runs against it.
C6_SingleState ==
    /\ Cardinality(Constructed) <= 1
    /\ Len(listeners) <= 1
    /\ \A c \in Calls :
          st[c] # NoCall
            => /\ st[c] = cell
               /\ Constructed = {cell}
               /\ listeners = <<cell>>
    /\ \A d \in Deliveries : dpc[d] # "idle" => Constructed = {dst[d]}

\* Both calls wait on entries of the same map; the call that begun later
\* (and did not construct the state) allocated the first id.
C6_Witness ==
    /\ st[1] = st[2] /\ st[1] # NoCall
    /\ pc[1] = "await" /\ pc[2] = "await"
    /\ DOMAIN pending[cell] = {1, 2}
    /\ id[2] = 1

\* C7: a call resolved by a response with success = false fails with an
\* error that names its method and carries the response's error string,
\* "unknown error" when there is none; no data appears in the outcome.
C7_FailureReply ==
    \A c \in Calls :
        (Resolved(c) /\ ~chan[c].value[1].success)
          => /\ outcome[c].kind = "Failed"
             /\ outcome[c].method = method[c]
             /\ outcome[c].method = MethodOf(c)
             /\ outcome[c].msg = IF chan[c].value[1].error = "None"
                                 THEN "unknown error"
                                 ELSE chan[c].value[1].error
             /\ outcome[c].value = ""

\* One call failed with "not found" from a response that also carried
\* data, the other with the placeholder.
C7_Witness ==
    \E a, b \in Calls :
        /\ Resolved(a) /\ ~chan[a].value[1].success
        /\ chan[a].value[1].data = JsonY2
        /\ outcome[a].msg = "not found"
        /\ Resolved(b) /\ ~chan[b].value[1].success
        /\ outcome[b].msg = "unknown error"
        /\ outcome[a].method # outcome[b].method

\* C8: a call resolved by a response with success = true returns the
\* response's data (null when absent) decoded into its result type, or the
\* deserialize error when the value does not fit; the request's payload
\* plays no part.
C8_SuccessReply ==
    \A c \in Calls :
        (Resolved(c) /\ chan[c].value[1].success)
          => LET data == chan[c].value[1].data
                 v == IF data = "None" THEN "null" ELSE data
                 fitsY == outcome[c].ty = "Y" /\ v = "{y:2}"
                 fitsUnit == outcome[c].ty = "()" /\ v = "null"
             IN /\ outcome[c].ty \in RTypes
                /\ fitsY => outcome[c].kind = "Ok" /\ outcome[c].value = "Y{y:2}"
                /\ fitsUnit => outcome[c].kind = "Ok" /\ outcome[c].value = "()"
                /\ ~(fitsY \/ fitsUnit)
                     => /\ outcome[c].kind = "Context"
                        /\ outcome[c].msg = "deserialize frontend response"

\* Payload {x:1}, response data {y:2}: the result is {y:2}; the other call
\* got a response without data and returned unit.
C8_Witness ==
    \E a, b \in Calls :
        /\ Resolved(a) /\ req[a].payload = JsonX1
        /\ chan[a].value[1].data = JsonY2
        /\ outcome[a].kind = "Ok" /\ outcome[a].value = "Y{y:2}"
        /\ Resolved(b) /\ chan[b].value[1].success
        /\ chan[b].value[1].data = NoneVal
        /\ outcome[b].kind = "Ok" /\ outcome[b].value = "()"

\* The call returned the emit error.
EmitFailed(c) == pc[c] = "done" /\ outcome[c].msg = "emit frontend invoke event"

C10_SerializeFails ==
    \A c \in Calls :
        payload[c] = "Map{[1]:1}"
          => /\ pc[c] = "done"
             /\ outcome[c].kind = "Context"
             /\ outcome[c].msg = "serialize frontend payload"
             /\ \A r \in emitted : r.id # id[c]

\* One call failed to serialize; the other's request is the only one
\* published.
C10_Witness ==
    \E a, b \in Calls :
        /\ payload[a] = "Map{[1]:1}" /\ pc[a] = "done"
        /\ emitted = {req[b]} /\ req[b].id = id[b] /\ id[b] # 0

\* The deliveries that decoded a response carrying the call's id.
RepliesFor(c) == {d \in Deliveries : id[c] # 0 /\ did[d] = id[c]}

\* C11: a call whose request was emitted and for whose id no well-formed
\* response has been delivered is in rx.await with no outcome; a call leaves
\* rx.await only in a step that reads a response sent by a delivery
\* carrying its id; a request is published only by the one pass of its call
\* through emit, and a call past emit never returns to it.
C11_NoTimeoutNoRetry ==
    /\ [](\A c \in Calls :
            (req[c] \in emitted /\ RepliesFor(c) = {})
              => pc[c] = "await" /\ outcome[c] = NoOutcome)
    /\ [][\A c \in Calls :
            (pc[c] = "await" /\ pc'[c] # "await")
              => \E d \in RepliesFor(c) : dres[d] = "sent" /\ dtx[d] = <<c>>]_vars
    /\ [][\A c \in Calls :
            /\ pc[c] \in {"await", "done"} => pc'[c] \in {"await", "done"}
            /\ (req[c] \notin emitted /\ req'[c] \in emitted')
                 => pc[c] = "emit" /\ emitted' = emitted \cup {req[c]}]_vars

\* Everything else has run to its end and no response carried the id of
\* the call that still waits: nothing can happen any more.
C11_Witness ==
    \E c \in Calls :
        /\ pc[c] = "await" /\ req[c] \in emitted /\ RepliesFor(c) = {}
        /\ \A b \in Calls \ {c} : pc[b] = "done"
        /\ \A d \in Deliveries : dpc[d] = "done"
        /\ ~ENABLED Next

\* The completion handle of a registered call is released without a send:
\* the Sender the pending map holds is dropped together with its entry, as
\* when the table is torn down. Nothing in invoke_frontend or resolve does
\* this; it is a step of the surroundings.
ReleaseSender(c) ==
    /\ InTable(c)
    /\ pending' = [pending EXCEPT ![st[c]] = Remove(@, id[c])]
    /\ chan' = DropSenders(chan, <<c>>)
    /\ UNCHANGED <<callVars, cellVars, next_id, lock, emitted, deliveryVars>>

NextRelease ==
    \/ Next
    \/ \E c \in Calls : ReleaseSender(c)

\* The engine in surroundings that may release completion handles.
SpecRelease == Init /\ [][NextRelease]_vars

\* C12 (under SpecRelease): a call that leaves rx.await without a response
\* in its channel returns the "dropped without response" error naming its
\* method and no result; a waiting call whose Sender is gone can return (it
\* does not hang); and only such a call ever gets that error.
C12_DroppedError ==
    /\ [][\A c \in Calls :
            (pc[c] = "await" /\ pc'[c] # "await" /\ chan[c].value = <<>>)
              => /\ pc'[c] = "done"
                 /\ outcome'[c].kind = "Dropped"
                 /\ outcome'[c].msg = "dropped without response"
                 /\ outcome'[c].method = MethodOf(c)
                 /\ outcome'[c].value = ""]_vars
    /\ [](\A c \in Calls :
            (pc[c] = "await" /\ chan[c].tx = "dropped" /\ chan[c].value = <<>>)
              => ENABLED (\E ty \in RTypes : Resume(c, ty)))
    /\ [](\A c \in Calls :
            outcome[c].kind = "Dropped"
              => chan[c].value = <<>> /\ chan[c].tx = "dropped")

\* One call ended with the dropped error after its handle was released
\* while it waited; the other was resolved by a response.
C12_Witness ==
    \E a, b \in Calls :
        /\ pc[a] = "done" /\ outcome[a].kind = "Dropped"
        /\ req[a] \in emitted /\ ~InTable(a) /\ Takers(a) = {}
        /\ Resolved(b)

\* C13: every published request is the request of one call and carries
\* that call's id and method; it has a payload key exactly when the call's
\* payload serializes to a non-null value, and then holds that value; for a
\* payload that serializes to null its keys are id and method only.
C13_RequestEncoding ==
    /\ \A r \in emitted : \E c \in Calls : r = req[c]
    /\ \A c \in Calls :
          req[c] \in emitted
            => /\ {"id", "method"} \subseteq req[c].keys
               /\ req[c].id = id[c] /\ id[c] # 0
               /\ req[c].method = MethodOf(c)
               /\ payload[c] \in {"()", "X{x:1}"}
               /\ payload[c] = "X{x:1}"
                    => req[c].keys = {"id", "method", "payload"}
                       /\ req[c].payload = "{x:1}"
               /\ payload[c] = "()" => req[c].keys = {"id", "method"}

\* Two requests published: one for a unit payload, without the payload
\* key, and one for {x:1}, with it.
C13_Witness ==
    \E a, b \in Calls :
        /\ req[a] \in emitted /\ payload[a] = "()"
        /\ "payload" \notin req[a].keys
        /\ req[b] \in emitted /\ payload[b] = "X{x:1}"
        /\ "payload" \in req[b].keys

\* The threads inside a critical section of the instance's pending map.
InCritical(s) ==
    {CallThread(c) : c \in {x \in Calls : st[x] = s /\ pc[x] = "add_insert"}}
      \cup {ListenerThread(d) : d \in {x \in Deliveries : dst[x] = s /\ dpc[x] = "remove"}}

\* C15: the guard of the pending map is held exactly by the thread that is
\* at its insert or at its remove, and by one thread at a time: never by a
\* call that is serializing, emitting, waiting or returning, never by a
\* delivery that is sending or done, and never by two at once.
C15_LockOnlyAroundTable ==
    \A s \in Calls :
        /\ Cardinality(InCritical(s)) <= 1
        /\ lock[s] = NoThread <=> InCritical(s) = {}
        /\ lock[s] # NoThread => InCritical(s) = {lock[s]}
        /\ \A c \in Calls :
              pc[c] \in {"serialize", "emit", "await", "done"} => lock[s] # CallThread(c)
        /\ \A d \in Deliveries :
              dpc[d] \in {"send", "done"} => lock[s] # ListenerThread(d)

\* A delivery holds the guard for its remove while one call waits for the
\* guard to register and the other is at emit.
C15_Witness ==
    \E d \in Deliveries : \E a, b \in Calls :
        /\ dpc[d] = "remove" /\ lock[dst[d]] = ListenerThread(d)
        /\ pc[a] = "add_lock" /\ st[a] = dst[d]
        /\ pc[b] = "emit"

\* C16: every entry of a pending map is stored under the id of the call
\* whose Sender it holds, so no two entries share an id; and every insert
\* of add_pending finds its id absent: it adds one key, replaces nothing
\* and drops no other call's Sender.
C16_NoOverwrite ==
    /\ [](\A s \in Calls : \A i \in DOMAIN pending[s] :
            /\ id[pending[s][i]] = i
            /\ st[pending[s][i]] = s
            /\ chan[pending[s][i]].tx = "alive")
    /\ [][\A c \in Calls :
            (pc[c] = "add_insert" /\ pc'[c] # "add_insert")
              => /\ id[c] \notin DOMAIN pending[st[c]]
                 /\ DOMAIN pending'[st[c]] = DOMAIN pending[st[c]] \cup {id[c]}
                 /\ \A i \in DOMAIN pending[st[c]] :
                       pending'[st[c]][i] = pending[st[c]][i]
                 /\ \A b \in Calls : chan'[b].tx = chan[b].tx]_vars

\* Both calls are registered in the same map, each under its own id.
C16_Witness ==
    /\ cell # NoCall
    /\ DOMAIN pending[cell] = {1, 2}
    /\ pending[cell][id[1]] = 1 /\ pending[cell][id[2]] = 2
    /\ pc[1] = "serialize" /\ pc[2] = "serialize"

\* C17: a call whose request is published has registered its Sender (the
\* entry is in the map, or a resolve has taken it), so a resolve that looks
\* up the id of a published request finds the entry unless an earlier
\* resolve took it; a response sent into the channel before the call
\* reaches rx.await stays there, and the call, once waiting, can return and
\* returns what that response says, not the dropped error.
C17_RegisteredBeforeEmit ==
    /\ [](\A c \in Calls :
            req[c] \in emitted => (InTable(c) \/ Takers(c) # {}))
    /\ [][\A d \in Deliveries : \A c \in Calls :
            (dpc[d] = "remove" /\ dpc'[d] = "send"
               /\ did[d] = id[c] /\ dst[d] = st[c]
               /\ req[c] \in emitted /\ Takers(c) = {})
              => dtx'[d] = <<c>>]_vars
    /\ [][\A c \in Calls :
            (chan[c].value # <<>> /\ pc[c] # "done")
              => /\ chan'[c].value = chan[c].value
                 /\ (pc[c] = "await" /\ pc'[c] = "done")
                      => /\ outcome'[c].kind \in {"Ok", "Failed", "Context"}
                         /\ outcome'[c].kind = "Failed"
                              <=> ~chan[c].value[1].success]_vars
    /\ [](\A c \in Calls :
            (pc[c] = "await" /\ chan[c].value # <<>>)
              => ENABLED (\E ty \in RTypes : Resume(c, ty)))

\* A response is already in the channel of a registered call that has not
\* yet emitted its request.
C17_Witness ==
    \E c \in Calls : \E d \in Deliveries :
        /\ pc[c] = "emit" /\ req[c] \notin emitted
        /\ chan[c].value # <<>> /\ chan[c].rx = "alive"
        /\ dtx[d] = <<c>> /\ dres[d] = "sent"

\* Scheduling: a thread inside add_pending or resolve keeps running (the
\* critical sections and the send are straight-line code), and a task
\* whose rx.await is ready is polled again by the runtime.
Fairness ==
    /\ \A c \in Calls :
          /\ WF_vars(AddPendingInsert(c))
          /\ WF_vars(\E ty \in RTypes : Resume(c, ty))
    /\ \A d \in Deliveries :
          /\ WF_vars(ResolveLock(d))
          /\ WF_vars(ResolveRemove(d))
          /\ WF_vars(ResolveSend(d))

FairSpec == Spec /\ Fairness

\* C18 (under FairSpec): whenever a call's request is published and a
\* delivery that decoded a response with the call's id is on its way into
\* resolve, the call eventually returns, with a result or an error that is
\* not the dropped error, whatever the other calls do.
C18_RepliedCallReturns ==
    \A c \in Calls :
        (req[c] \in emitted
           /\ \E d \in Deliveries : dpc[d] \in {"lock", "remove"} /\ did[d] = id[c])
          ~> (pc[c] = "done" /\ outcome[c].kind \in {"Ok", "Failed", "Context"})

\* One call has returned from a response while the other, whose request
\* is published too, still waits with no response for its id.
C18_Witness ==
    \E a, b \in Calls :
        /\ Resolved(a) /\ req[a] \in emitted
        /\ pc[b] = "await" /\ req[b] \in emitted /\ RepliesFor(b) = {}
        /\ \A d \in Deliveries : dpc[d] = "done"

\* The ids under which calls have registered in the instance.
RegisteredIds(s) == {id[c] : c \in {x \in Calls : st[x] = s /\ Registered(x)}}

\* The ids of the well-formed responses whose resolve has done its remove.
ProcessedIds(s) ==
    {did[d] : d \in {x \in Deliveries : dst[x] = s /\ dpc[x] \in {"send", "done"}}}

\* The ids whose entry a resolve has taken out of the map.
TakenIds(s) == {id[c] : c \in {x \in Calls : st[x] = s /\ Takers(x) # {}}}

\* C19 as stated: the keys of the pending map are the registered ids minus
\* the ids for which a well-formed response has been processed.
C19_KeysAsStated ==
    \A s \in Constructed : DOMAIN pending[s] = RegisteredIds(s) \ ProcessedIds(s)

\* C19, amended: the keys of the pending map are the registered ids minus
\* the ids whose entry a resolve has taken (a response processed before its
\* id was registered takes nothing); a key leaves the map only in the
\* remove of a delivery whose response carries that key, and a call that
\* returns early leaves its entry where it is.
C19_KeysRegisteredMinusTaken ==
    /\ [](\A s \in Constructed : DOMAIN pending[s] = RegisteredIds(s) \ TakenIds(s))
    /\ [][\A s \in Constructed : \A i \in DOMAIN pending[s] :
            i \notin DOMAIN pending'[s]
              => \E d \in Deliveries :
                    /\ dpc[d] = "remove" /\ dpc'[d] = "send"
                    /\ dst[d] = s /\ did[d] = i]_vars
    /\ [][\A c \in Calls :
            (pc[c] \in {"serialize", "emit"} /\ pc'[c] = "done")
              => pending' = pending]_vars

\* Both calls returned early, one on the serialize error and one on the
\* emit error, every delivery is over, and both entries are still there.
C19_Witness ==
    \E a, b \in Calls :
        /\ pc[a] = "done" /\ outcome[a].msg = "serialize frontend payload"
        /\ pc[b] = "done" /\ outcome[b].msg = "emit frontend invoke event"
        /\ InTable(a) /\ InTable(b)
        /\ \A d \in Deliveries : dpc[d] = "done"

\* The deliveries that hold the Sender of the call in resolve's local `tx`,
\* between the remove and the send.
Sending(c) == {d \in Deliveries : dpc[d] = "send" /\ dtx[d] = <<c>>}

\* C20 as stated: no call ends in the Dropped outcome, and in every
\* reachable state an awaiting call either still has its entry in the map
\* or has a response delivered to its channel.
C20_EntryOrReplyAsStated ==
    \A c \in Calls :
        /\ outcome[c].kind # "Dropped"
        /\ pc[c] = "await" => InTable(c) \/ chan[c].value # <<>>

\* C20, amended: no call ends in the Dropped outcome, no Sender is ever
\* dropped while its call awaits, and an awaiting call either still has its
\* entry in the map, or has a response delivered to its channel, or has
\* its Sender in the hands of a resolve that has removed it and has yet to
\* send.
C20_NoDroppedOutcome ==
    \A c \in Calls :
        /\ outcome[c].kind # "Dropped"
        /\ pc[c] = "await" =>
              /\ chan[c].tx # "dropped"
              /\ InTable(c) \/ chan[c].value # <<>> \/ Sending(c) # {}

\* Two calls await: the response of one is in its channel, the Sender of
\* the other has left the map and is about to be sent into.
C20_Witness ==
    \E a, b \in Calls :
        /\ pc[a] = "await" /\ ~InTable(a) /\ chan[a].value # <<>>
        /\ pc[b] = "await" /\ ~InTable(b) /\ chan[b].value = <<>>
        /\ Sending(b) # {}

====
